---- MODULE Spec2Model ----
(***************************************************************************)
(* Model of go-app/main.go: the process bootstrap (main, initLogger,       *)
(* initTracer, initMeter), the profiling agent goroutine, and the          *)
(* per-request handler handleRequest running on the connection goroutines  *)
(* of net/http.                                                            *)
(***************************************************************************)
EXTENDS Naturals, Integers, Sequences, FiniteSets, Bags, TLC

\* ------------------------------------------------------------------ bounds
NumConns == 2          \* connection goroutines serving requests concurrently
MaxRequests == 2       \* requests dispatched in one run of the process

\* --------------------------------------------------------- program constants
StatusOK == 200
DefaultCollector == "localhost:4318"
DefaultPort == "8080"
ListenAddr == ":8080"
HelloPattern == "/hello"
HelloBody == "Hello, World!"

Conns == 1..NumConns
Methods == {"GET", "POST"}
Paths == {"/hello", "/"}
\* The environments the process is started in: nothing set, and a container
\* setting both variables.
Environments ==
  { [PORT |-> "", OTEL_COLLECTOR_ENDPOINT |-> ""],
    [PORT |-> "9090", OTEL_COLLECTOR_ENDPOINT |-> "otel-collector:4318"] }
\* time.Since(startTime).Milliseconds(): the clock is not modelled, the
\* measured value stands for any duration.
Durations == {7}

VARIABLES
  env,              \* process environment: PORT, OTEL_COLLECTOR_ENDPOINT
  procState,        \* "running" | "exited"
  exitCause,        \* which statement ended the process ("none" while running)
  mainPc,           \* position of main
  mainDefers,       \* main's deferred calls, in the order they were deferred
  otelCollector,    \* main's local otelCollector
  globalLogger,     \* zap's global logger: "nop" until ReplaceGlobals
  tracerProvider,   \* otel's global tracer provider: "noop" | "sdk"
  meterProvider,    \* otel's global meter provider: "noop" | "sdk"
  exporterEndpoint, \* endpoint the two exporters were built with
  tpShutdowns,      \* calls of tp.Shutdown
  mpShutdowns,      \* calls of mp.Shutdown
  loggerSyncs,      \* calls of logger.Sync
  handlerRegistered,\* DefaultServeMux has the /hello pattern
  listenAddr,       \* address passed to ListenAndServe ("" before the call)
  agent,            \* profiling agent goroutine: none | spawned | ok | failed
  pc,               \* per connection goroutine: position in handleRequest
  req,              \* per goroutine: the request being served
  span,             \* per goroutine: the span of the request
  traceID,          \* per goroutine: handleRequest's local traceID
  labels,           \* per goroutine: the goroutine's pprof label set
  defers,           \* per goroutine: handleRequest's deferred calls
  events,           \* per goroutine: what the current request has emitted
  resp,             \* per goroutine: the response written
  nextTraceID,      \* trace ids handed out so far + 1
  dispatched,       \* requests dispatched by the server
  completed,        \* handleRequest invocations that returned
  requestCounter,   \* http.requests.total: bag of attribute sets
  requestDuration,  \* http.request.duration: bag of observations
  spansPending,     \* ended spans wait in the batch span processor
  metricsPending    \* observations recorded since the last metric export

mainVars == <<mainPc, mainDefers, otelCollector, globalLogger, tracerProvider,
              meterProvider, exporterEndpoint, tpShutdowns, mpShutdowns,
              loggerSyncs, handlerRegistered, listenAddr>>
procVars == <<procState, exitCause>>
connVars == <<pc, req, span, traceID, labels, defers, events, resp>>
countVars == <<nextTraceID, dispatched, completed>>
metricVars == <<requestCounter, requestDuration>>
exportVars == <<spansPending, metricsPending>>
vars == <<env, procVars, mainVars, agent, connVars, countVars, metricVars,
          exportVars>>

\* ----------------------------------------------------------------- helpers
NoReq == [path |-> "", method |-> "", remote_addr |-> ""]
NoSpan == [traceID |-> 0, attrs |-> {}, started |-> FALSE, ended |-> FALSE]
NoResp == [status |-> 0, body |-> "", contentType |-> ""]

Running == procState = "running"

\* os.Getenv with the fallback of main: the value when set and non-empty.
GetenvOr(name, default) == IF env[name] = "" THEN default ELSE env[name]

\* TraceID.String(): the id rendered as text.
TraceIDString(t) == ToString(t)

RemoteAddr(g) == "client" \o ToString(g)

Event(kind, data) == [kind |-> kind, data |-> data]

\* zap.L(): the global logger drops entries until ReplaceGlobals has run.
Logged(g, msg, fields) ==
  IF globalLogger = "zap"
  THEN Append(events[g], Event("log", [msg |-> msg, fields |-> fields]))
  ELSE events[g]

RECURSIVE Reverse(_)
Reverse(s) == IF s = <<>> THEN <<>> ELSE Append(Reverse(Tail(s)), Head(s))

Range(s) == {s[i] : i \in DOMAIN s}

RECURSIVE DeferEvents(_)
DeferEvents(s) ==
  IF s = <<>> THEN <<>>
  ELSE <<Event(Head(s), [msg |-> "", fields |-> <<>>])>> \o DeferEvents(Tail(s))

\* os.Exit: the process ends at once; no deferred call of any goroutine runs.
Exit(cause) == procState' = "exited" /\ exitCause' = cause

\* ------------------------------------------------------------------- Init
Init ==
  /\ env \in Environments
  /\ procState = "running"
  /\ exitCause = "none"
  /\ mainPc = "start"
  /\ mainDefers = <<>>
  /\ otelCollector = ""
  /\ globalLogger = "nop"
  /\ tracerProvider = "noop"
  /\ meterProvider = "noop"
  /\ exporterEndpoint = [trace |-> "", metric |-> ""]
  /\ tpShutdowns = 0
  /\ mpShutdowns = 0
  /\ loggerSyncs = 0
  /\ handlerRegistered = FALSE
  /\ listenAddr = ""
  /\ agent = "none"
  /\ pc = [g \in Conns |-> "idle"]
  /\ req = [g \in Conns |-> NoReq]
  /\ span = [g \in Conns |-> NoSpan]
  /\ traceID = [g \in Conns |-> ""]
  /\ labels = [g \in Conns |-> {}]
  /\ defers = [g \in Conns |-> <<>>]
  /\ events = [g \in Conns |-> <<>>]
  /\ resp = [g \in Conns |-> NoResp]
  /\ nextTraceID = 1
  /\ dispatched = 0
  /\ completed = 0
  /\ requestCounter = EmptyBag
  /\ requestDuration = EmptyBag
  /\ spansPending = FALSE
  /\ metricsPending = FALSE

\* ------------------------------------------------------------------- main
\* A panic in main runs main's deferred calls, last deferred first, and then
\* ends the process.  Shutdown of the tracer provider flushes the span queue.
PanicMain(cause) ==
  /\ tpShutdowns' = tpShutdowns + (IF "tp.Shutdown" \in Range(mainDefers) THEN 1 ELSE 0)
  /\ mpShutdowns' = mpShutdowns + (IF "mp.Shutdown" \in Range(mainDefers) THEN 1 ELSE 0)
  /\ loggerSyncs' = loggerSyncs + (IF "logger.Sync" \in Range(mainDefers) THEN 1 ELSE 0)
  /\ spansPending' =
       IF "tp.Shutdown" \in Range(mainDefers) THEN FALSE ELSE spansPending
  /\ metricsPending' =
       IF "mp.Shutdown" \in Range(mainDefers) THEN FALSE ELSE metricsPending
  /\ mainDefers' = <<>>
  /\ mainPc' = "exited"
  /\ Exit(cause)

\* go func() { _, _ = pyroscope.Start(...) }()
MainSpawnAgent ==
  /\ Running /\ mainPc = "start"
  /\ agent' = "spawned"
  /\ mainPc' = "getenv"
  /\ UNCHANGED <<env, procVars, mainDefers, otelCollector, globalLogger,
                 tracerProvider, meterProvider, exporterEndpoint, tpShutdowns,
                 mpShutdowns, loggerSyncs, handlerRegistered, listenAddr,
                 connVars, countVars, metricVars, exportVars>>

\* otelCollector := os.Getenv(...); if otelCollector == "" { default }
MainGetenv ==
  /\ Running /\ mainPc = "getenv"
  /\ otelCollector' = GetenvOr("OTEL_COLLECTOR_ENDPOINT", DefaultCollector)
  /\ mainPc' = "initLogger"
  /\ UNCHANGED <<env, procVars, mainDefers, globalLogger, tracerProvider,
                 meterProvider, exporterEndpoint, tpShutdowns, mpShutdowns,
                 loggerSyncs, handlerRegistered, listenAddr, agent, connVars,
                 countVars, metricVars, exportVars>>

\* logger := initLogger(); defer logger.Sync(); zap.ReplaceGlobals(logger)
MainInitLogger ==
  /\ Running /\ mainPc = "initLogger"
  /\ mainDefers' = Append(mainDefers, "logger.Sync")
  /\ globalLogger' = "zap"
  /\ mainPc' = "initTracer"
  /\ UNCHANGED <<env, procVars, otelCollector, tracerProvider, meterProvider,
                 exporterEndpoint, tpShutdowns, mpShutdowns, loggerSyncs,
                 handlerRegistered, listenAddr, agent, connVars, countVars,
                 metricVars, exportVars>>

\* initLogger: config.Build() failed, panic(err)
MainInitLoggerPanic ==
  /\ Running /\ mainPc = "initLogger"
  /\ PanicMain("initLogger")
  /\ UNCHANGED <<env, otelCollector, globalLogger, tracerProvider,
                 meterProvider, exporterEndpoint, handlerRegistered,
                 listenAddr, agent, connVars, countVars, metricVars>>

\* tp, err := initTracer(ctx, otelCollector) with err == nil; defer tp.Shutdown
MainInitTracer ==
  /\ Running /\ mainPc = "initTracer"
  /\ exporterEndpoint' = [exporterEndpoint EXCEPT !.trace = otelCollector]
  /\ tracerProvider' = "sdk"
  /\ mainDefers' = Append(mainDefers, "tp.Shutdown")
  /\ mainPc' = "initMeter"
  /\ UNCHANGED <<env, procVars, otelCollector, globalLogger, meterProvider,
                 tpShutdowns, mpShutdowns, loggerSyncs, handlerRegistered,
                 listenAddr, agent, connVars, countVars, metricVars,
                 exportVars>>

\* initTracer returned an error: panic("failed to initialize tracer provider")
MainInitTracerPanic ==
  /\ Running /\ mainPc = "initTracer"
  /\ PanicMain("initTracer")
  /\ UNCHANGED <<env, otelCollector, globalLogger, tracerProvider,
                 meterProvider, exporterEndpoint, handlerRegistered,
                 listenAddr, agent, connVars, countVars, metricVars>>

\* mp, err := initMeter(ctx, otelCollector) with err == nil; defer mp.Shutdown
MainInitMeter ==
  /\ Running /\ mainPc = "initMeter"
  /\ exporterEndpoint' = [exporterEndpoint EXCEPT !.metric = otelCollector]
  /\ meterProvider' = "sdk"
  /\ mainDefers' = Append(mainDefers, "mp.Shutdown")
  /\ mainPc' = "handleFunc"
  /\ UNCHANGED <<env, procVars, otelCollector, globalLogger, tracerProvider,
                 tpShutdowns, mpShutdowns, loggerSyncs, handlerRegistered,
                 listenAddr, agent, connVars, countVars, metricVars,
                 exportVars>>

\* A startup that logs the meter failure and carries on without the provider.
MainInitMeterDegraded ==
  /\ Running /\ mainPc = "initMeter"
  /\ mainPc' = "handleFunc"
  /\ UNCHANGED <<env, procVars, mainDefers, otelCollector, globalLogger,
                 tracerProvider, meterProvider, exporterEndpoint, tpShutdowns,
                 mpShutdowns, loggerSyncs, handlerRegistered, listenAddr,
                 agent, connVars, countVars, metricVars, exportVars>>

\* initMeter returned an error: panic("failed to initialize meter provider")
MainInitMeterPanic ==
  /\ Running /\ mainPc = "initMeter"
  /\ PanicMain("initMeter")
  /\ UNCHANGED <<env, otelCollector, globalLogger, tracerProvider,
                 meterProvider, exporterEndpoint, handlerRegistered,
                 listenAddr, agent, connVars, countVars, metricVars>>

\* http.HandleFunc("/hello", handleRequest); logger.Info("Server starting")
MainHandleFunc ==
  /\ Running /\ mainPc = "handleFunc"
  /\ handlerRegistered' = TRUE
  /\ mainPc' = "listen"
  /\ UNCHANGED <<env, procVars, mainDefers, otelCollector, globalLogger,
                 tracerProvider, meterProvider, exporterEndpoint, tpShutdowns,
                 mpShutdowns, loggerSyncs, listenAddr, agent, connVars,
                 countVars, metricVars, exportVars>>

\* http.ListenAndServe(":8080", nil): the listener is bound and accepts.
MainListenAndServe ==
  /\ Running /\ mainPc = "listen"
  /\ listenAddr' = ListenAddr
  /\ mainPc' = "serving"
  /\ UNCHANGED <<env, procVars, mainDefers, otelCollector, globalLogger,
                 tracerProvider, meterProvider, exporterEndpoint, tpShutdowns,
                 mpShutdowns, loggerSyncs, handlerRegistered, agent, connVars,
                 countVars, metricVars, exportVars>>

\* ListenAndServe returned its (always non-nil) error, at bind time or while
\* serving: logger.Fatal logs and calls os.Exit(1).
MainListenFatal ==
  /\ Running /\ mainPc \in {"listen", "serving"}
  /\ listenAddr' = ListenAddr
  /\ mainPc' = "exited"
  /\ Exit("ListenAndServe")
  /\ UNCHANGED <<env, mainDefers, otelCollector, globalLogger, tracerProvider,
                 meterProvider, exporterEndpoint, tpShutdowns, mpShutdowns,
                 loggerSyncs, handlerRegistered, agent, connVars, countVars,
                 metricVars, exportVars>>

\* ------------------------------------------------------- profiling agent
\* An agent whose start failure is escalated to a process exit.
PyroscopeStartFatal ==
  /\ Running /\ agent = "spawned"
  /\ \/ agent' = "ok" /\ UNCHANGED <<procVars, mainPc>>
     \/ agent' = "failed" /\ mainPc' = "exited" /\ Exit("pyroscope")
  /\ UNCHANGED <<env, mainDefers, otelCollector, globalLogger, tracerProvider,
                 meterProvider, exporterEndpoint, tpShutdowns, mpShutdowns,
                 loggerSyncs, handlerRegistered, listenAddr, connVars,
                 countVars, metricVars, exportVars>>

\* _, _ = pyroscope.Start(...): both results are discarded.
PyroscopeStart ==
  /\ Running /\ agent = "spawned"
  /\ agent' \in {"ok", "failed"}
  /\ UNCHANGED <<env, procVars, mainVars, connVars, countVars, metricVars,
                 exportVars>>

\* --------------------------------------------------------- handleRequest
MetricAttrs(g) ==
  [path |-> req[g].path, method |-> req[g].method,
   trace_id |-> TraceIDString(span[g].traceID)]

\* net/http accepts a request on connection goroutine g and routes it through
\* DefaultServeMux: the exact pattern /hello reaches handleRequest.
Dispatch(g, path, method) ==
  /\ Running /\ mainPc = "serving" /\ pc[g] = "idle"
  /\ dispatched < MaxRequests
  /\ handlerRegistered /\ path = HelloPattern
  /\ req' = [req EXCEPT ![g] = [path |-> path, method |-> method,
                                remote_addr |-> RemoteAddr(g)]]
  /\ pc' = [pc EXCEPT ![g] = "start"]
  /\ span' = [span EXCEPT ![g] = NoSpan]
  /\ traceID' = [traceID EXCEPT ![g] = ""]
  /\ defers' = [defers EXCEPT ![g] = <<>>]
  /\ events' = [events EXCEPT ![g] = <<>>]
  /\ resp' = [resp EXCEPT ![g] = NoResp]
  /\ dispatched' = dispatched + 1
  /\ UNCHANGED <<env, procVars, mainVars, agent, labels, nextTraceID,
                 completed, metricVars, exportVars>>

\* Any other path has no pattern in the mux: its NotFoundHandler answers 404
\* and handleRequest is not entered.
DispatchNotFound(g, path, method) ==
  /\ Running /\ mainPc = "serving" /\ pc[g] = "idle"
  /\ dispatched < MaxRequests
  /\ ~(handlerRegistered /\ path = HelloPattern)
  /\ resp' = [resp EXCEPT ![g] = [status |-> 404,
                                  body |-> "404 page not found",
                                  contentType |-> "text/plain"]]
  /\ dispatched' = dispatched + 1
  /\ UNCHANGED <<env, procVars, mainVars, agent, pc, req, span, traceID,
                 labels, defers, events, nextTraceID, completed, metricVars,
                 exportVars>>

\* A handler that ends the span right after starting it (no defer).
StartSpanEndNow(g) ==
  /\ Running /\ pc[g] = "start"
  /\ span' = [span EXCEPT ![g] = [traceID |-> nextTraceID, attrs |-> {},
                                  started |-> TRUE, ended |-> TRUE]]
  /\ nextTraceID' = nextTraceID + 1
  /\ spansPending' = TRUE
  /\ events' = [events EXCEPT ![g] =
       events[g] \o DeferEvents(<<"span.Start", "span.End">>)]
  /\ pc' = [pc EXCEPT ![g] = "labels"]
  /\ UNCHANGED <<env, procVars, mainVars, agent, req, traceID, labels, defers,
                 resp, dispatched, completed, metricVars, metricsPending>>

\* ctx, span := tracer.Start(ctx, "handleRequest"); defer span.End()
\* The no-op tracer of an unset provider yields the all-zero trace id.
StartSpan(g) ==
  /\ Running /\ pc[g] = "start"
  /\ span' = [span EXCEPT ![g] =
       [traceID |-> IF tracerProvider = "sdk" THEN nextTraceID ELSE 0,
        attrs |-> {}, started |-> TRUE, ended |-> FALSE]]
  /\ nextTraceID' = IF tracerProvider = "sdk" THEN nextTraceID + 1 ELSE nextTraceID
  /\ defers' = [defers EXCEPT ![g] = Append(defers[g], "span.End")]
  /\ events' = [events EXCEPT ![g] = events[g] \o DeferEvents(<<"span.Start">>)]
  /\ pc' = [pc EXCEPT ![g] = "labels"]
  /\ UNCHANGED <<env, procVars, mainVars, agent, req, traceID, labels, resp,
                 dispatched, completed, metricVars, exportVars>>

\* traceID := span.SpanContext().TraceID().String()
\* pprof.SetGoroutineLabels(pprof.WithLabels(ctx, pprof.Labels("trace_id", traceID)))
\* defer pprof.SetGoroutineLabels(context.Background())
SetLabels(g) ==
  /\ Running /\ pc[g] = "labels"
  /\ traceID' = [traceID EXCEPT ![g] = TraceIDString(span[g].traceID)]
  /\ labels' = [labels EXCEPT ![g] = {<<"trace_id", TraceIDString(span[g].traceID)>>}]
  /\ defers' = [defers EXCEPT ![g] = Append(defers[g], "pprof.ClearLabels")]
  /\ events' = [events EXCEPT ![g] = events[g] \o DeferEvents(<<"pprof.SetLabels">>)]
  /\ pc' = [pc EXCEPT ![g] = "logStart"]
  /\ UNCHANGED <<env, procVars, mainVars, agent, req, span, resp, countVars,
                 metricVars, exportVars>>

\* logger.Info("handling request", path, method, remote_addr, trace_id)
LogStart(g) ==
  /\ Running /\ pc[g] = "logStart"
  /\ events' = [events EXCEPT ![g] = Logged(g, "handling request",
       [path |-> req[g].path, method |-> req[g].method,
        remote_addr |-> req[g].remote_addr, trace_id |-> traceID[g]])]
  /\ pc' = [pc EXCEPT ![g] = "work"]
  /\ UNCHANGED <<env, procVars, mainVars, agent, req, span, traceID, labels,
                 defers, resp, countVars, metricVars, exportVars>>

\* The allocate-and-sleep loop; then traceID is read from the span again.
Work(g) ==
  /\ Running /\ pc[g] = "work"
  /\ traceID' = [traceID EXCEPT ![g] = TraceIDString(span[g].traceID)]
  /\ events' = [events EXCEPT ![g] = events[g] \o DeferEvents(<<"work">>)]
  /\ pc' = [pc EXCEPT ![g] = "counter"]
  /\ UNCHANGED <<env, procVars, mainVars, agent, req, span, labels, defers,
                 resp, countVars, metricVars, exportVars>>

\* logger.Fatal inside the handler: the entry is logged and os.Exit(1) ends
\* the process; the handler's deferred calls do not run.
HandlerFatal(g, at, msg) ==
  /\ Running /\ pc[g] = at
  /\ events' = [events EXCEPT ![g] = Logged(g, msg, [level |-> "fatal"])]
  /\ pc' = [pc EXCEPT ![g] = "fatal"]
  /\ mainPc' = "exited"
  /\ Exit("handleRequest")
  /\ UNCHANGED <<env, mainDefers, otelCollector, globalLogger, tracerProvider,
                 meterProvider, exporterEndpoint, tpShutdowns, mpShutdowns,
                 loggerSyncs, handlerRegistered, listenAddr, agent, req, span,
                 traceID, labels, defers, resp, countVars, metricVars,
                 exportVars>>

\* meter.Int64Counter(...) returned an error
CounterFatal(g) == HandlerFatal(g, "counter", "failed to create request counter")

\* A counter whose every creation yields a fresh instrument, dropping the
\* series recorded through earlier ones.
CounterAddFresh(g) ==
  /\ Running /\ pc[g] = "counter"
  /\ requestCounter' = SetToBag({MetricAttrs(g)})
  /\ metricsPending' = TRUE
  /\ events' = [events EXCEPT ![g] = events[g] \o DeferEvents(<<"counter.Add">>)]
  /\ pc' = [pc EXCEPT ![g] = "hist"]
  /\ UNCHANGED <<env, procVars, mainVars, agent, req, span, traceID, labels,
                 defers, resp, countVars, requestDuration, spansPending>>

\* requestCounter.Add(ctx, 1, metric.WithAttributes(attrs...)): one atomic
\* addition to the series of the attribute set; the no-op meter records nothing.
CounterAdd(g) ==
  /\ Running /\ pc[g] = "counter"
  /\ requestCounter' = IF meterProvider = "sdk"
                       THEN requestCounter (+) SetToBag({MetricAttrs(g)})
                       ELSE requestCounter
  /\ metricsPending' = (metricsPending \/ meterProvider = "sdk")
  /\ events' = [events EXCEPT ![g] = events[g] \o DeferEvents(<<"counter.Add">>)]
  /\ pc' = [pc EXCEPT ![g] = "hist"]
  /\ UNCHANGED <<env, procVars, mainVars, agent, req, span, traceID, labels,
                 defers, resp, countVars, requestDuration, spansPending>>

\* meter.Float64Histogram(...) returned an error
HistFatal(g) ==
  HandlerFatal(g, "hist", "failed to create request duration histogram")

\* duration := float64(time.Since(startTime).Milliseconds())
\* requestDuration.Record(ctx, duration, metric.WithAttributes(attrs...))
\* logger.Info("request completed", path, method, duration_ms, status)
HistRecord(g, d) ==
  /\ Running /\ pc[g] = "hist"
  /\ requestDuration' = IF meterProvider = "sdk"
       THEN requestDuration (+) SetToBag({[attrs |-> MetricAttrs(g), value |-> d]})
       ELSE requestDuration
  /\ metricsPending' = (metricsPending \/ meterProvider = "sdk")
  /\ events' = [events EXCEPT ![g] =
       LET recorded == events[g] \o DeferEvents(<<"histogram.Record">>)
           entry == Event("log", [msg |-> "request completed",
                      fields |-> [path |-> req[g].path, method |-> req[g].method,
                                  duration_ms |-> d, status |-> StatusOK]])
       IN IF globalLogger = "zap" THEN Append(recorded, entry) ELSE recorded]
  /\ pc' = [pc EXCEPT ![g] = "respond"]
  /\ UNCHANGED <<env, procVars, mainVars, agent, req, span, traceID, labels,
                 defers, resp, countVars, requestCounter, spansPending>>

\* w.Header().Set("Content-Type", "text/plain"); w.WriteHeader(200); w.Write(...)
\* and handleRequest returns: its deferred calls run, last deferred first.
\* pprof.SetGoroutineLabels(context.Background()) empties the label set;
\* span.End() ends the span and queues it in the batch span processor.
Respond(g) ==
  /\ Running /\ pc[g] = "respond"
  /\ resp' = [resp EXCEPT ![g] = [status |-> StatusOK, body |-> HelloBody,
                                  contentType |-> "text/plain"]]
  /\ labels' = [labels EXCEPT ![g] =
       IF "pprof.ClearLabels" \in Range(defers[g]) THEN {} ELSE labels[g]]
  /\ span' = [span EXCEPT ![g].ended =
       IF "span.End" \in Range(defers[g]) THEN TRUE ELSE span[g].ended]
  /\ spansPending' =
       (spansPending \/ ("span.End" \in Range(defers[g]) /\ tracerProvider = "sdk"))
  /\ events' = [events EXCEPT ![g] =
       events[g] \o DeferEvents(<<"response.Write">> \o Reverse(defers[g]))]
  /\ defers' = [defers EXCEPT ![g] = <<>>]
  /\ completed' = completed + 1
  /\ pc' = [pc EXCEPT ![g] = "idle"]
  /\ UNCHANGED <<env, procVars, mainVars, agent, req, traceID, nextTraceID,
                 dispatched, metricVars, metricsPending>>

\* ------------------------------------------------------ background export
\* sdktrace.WithBatcher: the batch span processor exports its queue.
TraceBatchExport ==
  /\ Running /\ tracerProvider = "sdk" /\ spansPending
  /\ spansPending' = FALSE
  /\ UNCHANGED <<env, procVars, mainVars, agent, connVars, countVars,
                 metricVars, metricsPending>>

\* sdkmetric.NewPeriodicReader(..., WithInterval(1s)): one collect-and-export.
MetricPeriodicExport ==
  /\ Running /\ meterProvider = "sdk" /\ metricsPending
  /\ metricsPending' = FALSE
  /\ UNCHANGED <<env, procVars, mainVars, agent, connVars, countVars,
                 metricVars, spansPending>>

\* ------------------------------------------------------------------- Next
MainNext ==
  \/ MainSpawnAgent
  \/ MainGetenv
  \/ MainInitLogger
  \/ MainInitLoggerPanic
  \/ MainInitTracer
  \/ MainInitTracerPanic
  \/ MainInitMeter
  \/ MainInitMeterPanic
  \/ MainHandleFunc
  \/ MainListenAndServe

HandlerNext(g) ==
  \/ StartSpan(g)
  \/ SetLabels(g)
  \/ LogStart(g)
  \/ Work(g)
  \/ CounterAdd(g)
  \/ \E d \in Durations : HistRecord(g, d)
  \/ Respond(g)

Next ==
  \/ MainSpawnAgent
  \/ MainGetenv
  \/ MainInitLogger
  \/ MainInitLoggerPanic
  \/ MainInitTracer
  \/ MainInitTracerPanic
  \/ MainInitMeter
  \/ MainInitMeterPanic
  \/ MainHandleFunc
  \/ MainListenAndServe
  \/ MainListenFatal
  \/ PyroscopeStart
  \/ \E g \in Conns, path \in Paths, method \in Methods : Dispatch(g, path, method)
  \/ \E g \in Conns, path \in Paths, method \in Methods : DispatchNotFound(g, path, method)
  \/ \E g \in Conns : StartSpan(g)
  \/ \E g \in Conns : SetLabels(g)
  \/ \E g \in Conns : LogStart(g)
  \/ \E g \in Conns : Work(g)
  \/ \E g \in Conns : CounterFatal(g)
  \/ \E g \in Conns : CounterAdd(g)
  \/ \E g \in Conns : HistFatal(g)
  \/ \E g \in Conns, d \in Durations : HistRecord(g, d)
  \/ \E g \in Conns : Respond(g)
  \/ TraceBatchExport
  \/ MetricPeriodicExport

Spec == Init /\ [][Next]_vars

\* The Go scheduler runs every runnable goroutine: while the process runs,
\* main is not starved of its next statement.
FairSpec == Spec /\ WF_vars(MainNext)

\* ----------------------------------------------------------- observations
Kind(g, i) == events[g][i].kind
Tag(g, i) == <<events[g][i].kind, events[g][i].data.msg>>
Count(g, k) == Cardinality({i \in DOMAIN events[g] : Kind(g, i) = k})
LogEntries(g, msg) == {i \in DOMAIN events[g] : Tag(g, i) = <<"log", msg>>}

\* The request of goroutine g is over: handleRequest returned, or the process
\* was ended from inside it.
Terminal(g) == (pc[g] = "idle" /\ events[g] # <<>>) \/ pc[g] = "fatal"
InFlight(g) == pc[g] \notin {"idle", "fatal"}

\* What a request emits between the start and the end of its span.
Emissions ==
  { <<"log", "handling request">>, <<"counter.Add", "">>,
    <<"histogram.Record", "">>, <<"log", "request completed">>,
    <<"response.Write", "">> }

\* ------------------------------------------------------------------ claims
\* C1: in every terminal state of a request exactly one span was opened and
\* exactly one span was closed, also when instrument creation failed.
C1_SpanBalanced ==
  \A g \in Conns :
    Terminal(g) => Count(g, "span.Start") = 1 /\ Count(g, "span.End") = 1

\* C2: the span's trace id is in the request's start log entry, in its
\* completion log entry and in the goroutine label while the workload runs.
C2_TraceIdEverywhere ==
  \A g \in Conns :
    LET tid == TraceIDString(span[g].traceID) IN
    /\ \A i \in LogEntries(g, "handling request") :
         /\ "trace_id" \in DOMAIN events[g][i].data.fields
         /\ events[g][i].data.fields.trace_id = tid
    /\ \A i \in LogEntries(g, "request completed") :
         /\ "trace_id" \in DOMAIN events[g][i].data.fields
         /\ events[g][i].data.fields.trace_id = tid
    /\ pc[g] = "work" => <<"trace_id", tid>> \in labels[g]

\* C3: every attach of the trace_id label is matched by a detach when the
\* request is over, whatever its outcome, and a goroutine never carries the
\* label of a request other than the one it is serving.
C3_LabelsSymmetric ==
  \A g \in Conns :
    /\ Terminal(g) =>
         /\ Count(g, "pprof.SetLabels") = Count(g, "pprof.ClearLabels")
         /\ labels[g] = {}
    /\ labels[g] # {} =>
         /\ InFlight(g)
         /\ labels[g] = {<<"trace_id", TraceIDString(span[g].traceID)>>}

\* C4: once every dispatched handler has returned, the counter total and the
\* number of histogram observations both equal the number of completed
\* requests, under any interleaving of the handlers.
C4_CounterExact ==
  (\A g \in Conns : pc[g] = "idle") =>
    /\ BagCardinality(requestCounter) = completed
    /\ BagCardinality(requestDuration) = completed

C4_Witness ==
  /\ \A g \in Conns : pc[g] = "idle" /\ events[g] # <<>>
  /\ completed = MaxRequests
  /\ BagCardinality(requestCounter) = MaxRequests

\* C5: when the process has exited after handling requests, tp.Shutdown and
\* mp.Shutdown were each called once and no recorded telemetry is left
\* unexported.
C5_ShutdownOnExit ==
  (procState = "exited" /\ completed >= 1) =>
    /\ tpShutdowns = 1 /\ mpShutdowns = 1
    /\ ~spansPending /\ ~metricsPending

\* C6: a failed provider construction ends the process before the handler is
\* registered or the listener started, and whenever a request is or was being
\* handled or telemetry is recorded, both providers are the registered
\* process-wide defaults.
C6_ProvidersBeforeServing ==
  /\ exitCause \in {"initTracer", "initMeter"} =>
       ~handlerRegistered /\ listenAddr = "" /\ dispatched = 0
  /\ ( \/ handlerRegistered
       \/ listenAddr # ""
       \/ \E g \in Conns : pc[g] # "idle" \/ events[g] # <<>>
       \/ requestCounter # EmptyBag
       \/ requestDuration # EmptyBag )
     => tracerProvider = "sdk" /\ meterProvider = "sdk"

C6_Witness ==
  \E g \in Conns : pc[g] = "hist" /\ requestCounter # EmptyBag

\* C7: the listen address is the PORT variable's value when set and 8080
\* otherwise, and the collector endpoint is OTEL_COLLECTOR_ENDPOINT's value
\* when set and localhost:4318 otherwise.
C7_EnvSelects ==
  /\ listenAddr # "" => listenAddr = ":" \o GetenvOr("PORT", DefaultPort)
  /\ tracerProvider = "sdk" =>
       exporterEndpoint.trace = GetenvOr("OTEL_COLLECTOR_ENDPOINT", DefaultCollector)
  /\ meterProvider = "sdk" =>
       exporterEndpoint.metric = GetenvOr("OTEL_COLLECTOR_ENDPOINT", DefaultCollector)

\* C8: whatever the profiling agent does (succeeds, fails, has not returned),
\* main goes on to serve unless its own startup or a handler ends the process,
\* and while the process runs neither main before serving nor a request in
\* flight ever waits: its next statement can always be taken.
C8_AgentFireAndForget ==
  /\ <>( \/ mainPc = "serving"
         \/ exitCause \in {"initLogger", "initTracer", "initMeter",
                           "ListenAndServe", "handleRequest"} )
  /\ []((Running /\ mainPc # "serving") => ENABLED MainNext)
  /\ [](\A g \in Conns : (Running /\ InFlight(g)) => ENABLED HandlerNext(g))

\* The agent failed, the server serves, one request was answered and another
\* is in flight.
C8_Witness ==
  /\ agent = "failed" /\ mainPc = "serving"
  /\ \E g \in Conns : pc[g] = "idle" /\ resp[g].status = StatusOK
  /\ \E g \in Conns : InFlight(g)

\* C9: within a request the span start is the first event, and the span end
\* is the last one, after the start log entry, the counter increment, the
\* histogram record, the completion log entry and the response write.
C9_Ordering ==
  \A g \in Conns :
    \A i \in DOMAIN events[g] :
      /\ (Kind(g, i) = "span.Start") <=> (i = 1)
      /\ Kind(g, i) = "span.End" =>
           /\ i = Len(events[g])
           /\ \A e \in Emissions : \E j \in 1..(i - 1) : Tag(g, j) = e

\* Two requests overlap: one has ended its span while the other, started
\* before that end, is still between its span start and its span end.
C9_Witness ==
  \E g, h \in Conns :
    /\ g # h
    /\ pc[g] = "idle" /\ events[g] # <<>>
    /\ Kind(g, Len(events[g])) = "span.End"
    /\ pc[h] = "respond"
    /\ span[h].traceID < span[g].traceID

\* C10: when a request's span is ended its attributes contain the request's
\* path and method.
C10_SpanAttrs ==
  \A g \in Conns :
    span[g].ended =>
      {<<"path", req[g].path>>, <<"method", req[g].method>>} \subseteq span[g].attrs

====
